---- MODULE Spec2Model ----
(***************************************************************************)
(* A model of the user-data viewer: the App component (user-list fetch,    *)
(* selection, deletion, search filter), the UserModal effect (key listener *)
(* and scroll lock) and the PostsList component (per-user posts fetch).    *)
(*                                                                         *)
(* Encoding of JavaScript values:                                          *)
(*   - a nullable value is None (<<>>) or Some(v) (<<v>>); a JSON payload  *)
(*     is JsonNull or JsonArray(items);                                    *)
(*   - a string that the filter inspects is a sequence of one-character    *)
(*     strings; an error message is a TLA+ string.                         *)
(***************************************************************************)
EXTENDS FiniteSets, Integers, Sequences, TLC

\* ------------------------------------------------------------------ bounds
\* Largest number of users in a user-list payload.
MaxUsers == 3
\* Largest number of posts requests PostsList has in flight at once.
MaxInFlight == 3
\* Largest number of posts in a posts payload.
MaxPosts == 2
\* Largest number of changes of the userId prop of PostsList.
MaxChanges == 3

\* ----------------------------------------------------------- value encoding
None == <<>>
Some(v) == <<v>>
JsonNull == None
JsonArray(items) == Some(items)

Range(s) == {s[i] : i \in 1..Len(s)}

\* ------------------------------------------------------------ string helpers
Uppers == <<"A","B","C","D","E","F","G","H","I","J","K","L","M",
            "N","O","P","Q","R","S","T","U","V","W","X","Y","Z">>
Lowers == <<"a","b","c","d","e","f","g","h","i","j","k","l","m",
            "n","o","p","q","r","s","t","u","v","w","x","y","z">>

\* String.prototype.toLowerCase on one ASCII character.
toLowerChar(c) ==
    IF \E i \in 1..Len(Uppers) : Uppers[i] = c
    THEN Lowers[CHOOSE i \in 1..Len(Uppers) : Uppers[i] = c]
    ELSE c

\* String.prototype.toLowerCase.
toLowerCase(s) == [i \in 1..Len(s) |-> toLowerChar(s[i])]

\* The white space String.prototype.trim strips (those a text input can hold).
WhiteSpace == {" ", "\t"}

RECURSIVE trimStart(_)
trimStart(s) ==
    IF s # <<>> /\ Head(s) \in WhiteSpace THEN trimStart(Tail(s)) ELSE s

RECURSIVE trimEnd(_)
trimEnd(s) ==
    IF s # <<>> /\ s[Len(s)] \in WhiteSpace
    THEN trimEnd(SubSeq(s, 1, Len(s) - 1))
    ELSE s

\* String.prototype.trim.
trim(s) == trimEnd(trimStart(s))

\* String.prototype.indexOf(t, k): the first 0-based position at or after k
\* where t occurs in s, or -1.
RECURSIVE indexOf(_, _, _)
indexOf(s, t, k) ==
    IF k + Len(t) > Len(s) THEN -1
    ELSE IF SubSeq(s, k + 1, k + Len(t)) = t THEN k
    ELSE indexOf(s, t, k + 1)

\* String.prototype.includes.
includes(s, t) == indexOf(s, t, 0) # -1

\* ------------------------------------------------------------------ records
\* The User fields the program reads (id, and the four searched fields).
User(id, name, username, email, companyName) ==
    [id |-> id, name |-> name, username |-> username, email |-> email,
     company |-> [name |-> companyName]]

AnnLee == User(1, <<"A","n","n"," ","L","e","e">>, <<"a","l">>,
               <<"a","n","n","@","x">>, <<"B","o","x">>)
Bob    == User(2, <<"B","o","b">>, <<"b","k">>,
               <<"b","o","b","@","y">>, <<"A","c","m","e">>)
Cy     == User(3, <<"C","y">>, <<"z","e","d">>,
               <<"c","y","@","x">>, <<"B","o","x">>)

\* The users the remote source can return.
Catalogue == {AnnLee, Bob, Cy}

\* Sequences over S of length at most n without a repeated element.
RECURSIVE DistinctSeqs(_, _)
DistinctSeqs(S, n) ==
    IF n = 0 THEN {<<>>}
    ELSE LET shorter == DistinctSeqs(S, n - 1)
         IN  shorter \cup
             UNION {{Append(q, x) : x \in S \ Range(q)} : q \in shorter}

\* Success bodies of the user-list request: an array of users with unique
\* ids, or null.
Payloads == {JsonArray(a) : a \in DistinctSeqs(Catalogue, MaxUsers)} \cup {JsonNull}

\* Values the search input can report.
Terms == { <<>>, <<" ">>, <<"\t", " ">>,
           <<"a","n">>, <<"A","N">>, <<"B","o">>, <<"z","e","d">>,
           <<"@","x">>, <<"a","c","m","e">>, <<"n"," ","l">>,
           <<" ","l">>, <<"a","l"," ">>, <<"q">> }

\* Values a rejected promise can carry: an Error with a message, or a value
\* that is not an Error.
Rejections == { [isError |-> TRUE,  message |-> "Network error"],
                [isError |-> TRUE,  message |-> ""],
                [isError |-> FALSE, message |-> "boom"] }

Keys == {"Escape", "Enter"}

\* The URL fetchUsers requests.
UsersEndpoint == "https://jsonplaceholder.typicode.com/users"

\* The values the userId prop of PostsList takes.
UserIds == {1, 2}

\* The Post fields the program reads.
Post(id, uid) == [id |-> id, userId |-> uid]

\* The posts of a user at the remote source, in the source's order.
PostsOf(uid) == [i \in 1..MaxPosts |-> Post(10 * uid + i, uid)]

\* Success bodies of the posts request for a user: a prefix of the user's
\* posts, or null.
PostPayloads(uid) ==
    {JsonArray(SubSeq(PostsOf(uid), 1, n)) : n \in 0..MaxPosts} \cup {JsonNull}

\* -------------------------------------------------------------------- state
VARIABLES
    users,          \* App state: JSON value held by useState<User[]>
    selectedUser,   \* App state: None or Some(user)
    loading,        \* App state
    error,          \* App state: None or Some(message)
    searchTerm,     \* App state
    fetchPc,        \* position of fetchUsers: "fetch", "json", "done"
    requests,       \* the URLs App has passed to fetch, in order
    thrown,         \* None, or Some(v) for the value fetchUsers caught
    view,           \* what App rendered last: "loading", "error", "main",
                    \* "crashed" (render threw), "unmounted"
    rows,           \* the users passed to UserTable in the last render
    subtitle,       \* None, or Some(s) for the header subtitle of the last render
    clearButton,    \* SearchBar rendered its clear button in the last render
    modalMounted,   \* UserModal is mounted
    modalUser,      \* None, or Some(user) for the user prop of UserModal
    handleEscape,   \* None or Some(h): the listener the live effect registered
    keydownListeners, \* keydown listeners registered on document
    bodyOverflow,   \* document.body.style.overflow
    lastEvent       \* the last event handled and what it invoked

appVars == <<users, selectedUser, loading, error, searchTerm, fetchPc, requests, thrown,
             view,
             rows, subtitle, clearButton, modalMounted, modalUser, handleEscape, keydownListeners, bodyOverflow,
             lastEvent>>

VARIABLES
    userId,         \* PostsList prop
    posts,          \* PostsList state: JSON value held by useState<Post[]>
    postsLoading,   \* PostsList state: loading
    postsError,     \* PostsList state: error, None or Some(message)
    expandedPost,   \* PostsList state: None or Some(post id)
    calls,          \* the fetchPosts calls that have not finished, oldest
                    \* first: [uid, pc, latest], pc "fetch" or "json", latest
                    \* for the call of the last effect run
    postsView,      \* what PostsList rendered last: "loading", "error",
                    \* "empty", "loaded", "crashed" (render threw)
    postsEvent,     \* the last PostsList event
    fetchCount,     \* number of posts requests issued (calls of fetch)
    userIdChanges,  \* number of changes of the userId prop since mount
    latestFetch     \* the request of the last effect run (the one for the
                    \* current userId): its status and, once succeeded, its body

postsVars == <<userId, posts, postsLoading, postsError, expandedPost, calls,
               postsView, postsEvent, fetchCount, userIdChanges, latestFetch>>

vars == <<appVars, postsVars>>

\* An event record: what happened (kind, key, the row's user id, the cell),
\* how many times it invoked onClose, onUserClick and onDeleteUser, and for a
\* decoded response body Some(body).
EventData(kind, key, id, cell, closeCalls, selectCalls, deleteCalls, data) ==
    [kind |-> kind, key |-> key, id |-> id, cell |-> cell,
     closeCalls |-> closeCalls, selectCalls |-> selectCalls,
     deleteCalls |-> deleteCalls, data |-> data]

\* An event that decodes no response body.
EventRecord(kind, key, id, cell, closeCalls, selectCalls, deleteCalls) ==
    EventData(kind, key, id, cell, closeCalls, selectCalls, deleteCalls, None)

\* The search control reported value through onSearchChange.
SearchEvent(kind, value) == EventData(kind, "", 0, "", 0, 0, 0, Some(value))

\* response.json() resolved with data.
JsonEvent(data) == EventData("json", "", 0, "", 0, 0, 0, Some(data))

\* An event outside the table.
Event(kind, key, id, closeCalls) ==
    EventRecord(kind, key, id, "", closeCalls, 0, 0)

\* A click inside a table row.
ClickEvent(kind, cell, id, selectCalls, deleteCalls) ==
    EventRecord(kind, "", id, cell, 0, selectCalls, deleteCalls)

\* ---------------------------------------------------------------- App render
\* JavaScript truthiness of a string | null.
Truthy(s) == s # None /\ s[1] # ""

\* filteredUsers without the username field in the match.
filteredUsersNoUsername(u, term) ==
    IF trim(term) = <<>> THEN u
    ELSE LET searchLower == toLowerCase(term)
             Keep(user) ==
                 \/ includes(toLowerCase(user.name), searchLower)
                 \/ includes(toLowerCase(user.email), searchLower)
                 \/ includes(toLowerCase(user.company.name), searchLower)
         IN  JsonArray(SelectSeq(u[1], Keep))

\* filteredUsers testing the raw term, not the trimmed term, for emptiness.
filteredUsersNoTrim(u, term) ==
    IF term = <<>> THEN u
    ELSE LET searchLower == toLowerCase(term)
             Keep(user) ==
                 \/ includes(toLowerCase(user.name), searchLower)
                 \/ includes(toLowerCase(user.email), searchLower)
                 \/ includes(toLowerCase(user.company.name), searchLower)
                 \/ includes(toLowerCase(user.username), searchLower)
         IN  JsonArray(SelectSeq(u[1], Keep))

\* filteredUsers that returns the matching users in reverse order.
filteredUsersReversed(u, term) ==
    IF trim(term) = <<>> THEN u
    ELSE LET searchLower == toLowerCase(term)
             Keep(user) ==
                 \/ includes(toLowerCase(user.name), searchLower)
                 \/ includes(toLowerCase(user.email), searchLower)
                 \/ includes(toLowerCase(user.company.name), searchLower)
                 \/ includes(toLowerCase(user.username), searchLower)
             kept == SelectSeq(u[1], Keep)
         IN  JsonArray([i \in 1..Len(kept) |-> kept[Len(kept) + 1 - i]])

\* filteredUsers with find in place of filter: the first matching user only.
filteredUsersFirstMatch(u, term) ==
    IF trim(term) = <<>> THEN u
    ELSE LET searchLower == toLowerCase(term)
             Keep(user) ==
                 \/ includes(toLowerCase(user.name), searchLower)
                 \/ includes(toLowerCase(user.email), searchLower)
                 \/ includes(toLowerCase(user.company.name), searchLower)
                 \/ includes(toLowerCase(user.username), searchLower)
             kept == SelectSeq(u[1], Keep)
         IN  JsonArray(IF kept = <<>> THEN <<>> ELSE <<Head(kept)>>)

\* filteredUsers that compares each field with the term for equality.
filteredUsersExactMatch(u, term) ==
    IF trim(term) = <<>> THEN u
    ELSE LET searchLower == toLowerCase(term)
             Keep(user) ==
                 \/ toLowerCase(user.name) = searchLower
                 \/ toLowerCase(user.email) = searchLower
                 \/ toLowerCase(user.company.name) = searchLower
                 \/ toLowerCase(user.username) = searchLower
         IN  JsonArray(SelectSeq(u[1], Keep))

\* filteredUsers that matches with the trimmed term.
filteredUsersTrimmedMatch(u, term) ==
    IF trim(term) = <<>> THEN u
    ELSE LET searchLower == toLowerCase(trim(term))
             Keep(user) ==
                 \/ includes(toLowerCase(user.name), searchLower)
                 \/ includes(toLowerCase(user.email), searchLower)
                 \/ includes(toLowerCase(user.company.name), searchLower)
                 \/ includes(toLowerCase(user.username), searchLower)
         IN  JsonArray(SelectSeq(u[1], Keep))

\* App.filteredUsers (useMemo): a JSON value.
filteredUsers(u, term) ==
    IF trim(term) = <<>> THEN u
    ELSE LET searchLower == toLowerCase(term)
             Keep(user) ==
                 \/ includes(toLowerCase(user.name), searchLower)
                 \/ includes(toLowerCase(user.email), searchLower)
                 \/ includes(toLowerCase(user.company.name), searchLower)
                 \/ includes(toLowerCase(user.username), searchLower)
         IN  JsonArray(SelectSeq(u[1], Keep))

\* x?.length || 0 for a JSON array or null.
lengthOrZero(x) == IF x = JsonNull THEN 0 ELSE Len(x[1])

\* A subtitle whose total is the length of the filtered view.
SubtitleTotalOfFiltered(filtered, u, term) ==
    [shown    |-> lengthOrZero(filtered),
     total    |-> lengthOrZero(filtered),
     matching |-> IF term # <<>> THEN Some(term) ELSE None]

\* The header subtitle of a render whose filteredUsers is filtered:
\* "{filteredUsers?.length || 0} of {users?.length || 0} users", followed by
\* ` matching "searchTerm"` when searchTerm is not empty.
Subtitle(filtered, u, term) ==
    [shown    |-> lengthOrZero(filtered),
     total    |-> lengthOrZero(u),
     matching |-> IF term # <<>> THEN Some(term) ELSE None]

\* The main branch throws a TypeError when users is null: users.filter in
\* filteredUsers, or users.map in UserTable when the term is blank.
RenderThrows(u, ld, err) == ~ld /\ ~Truthy(err) /\ u = JsonNull

\* The branch App renders.
RenderView(u, ld, err) ==
    IF ld THEN "loading"
    ELSE IF Truthy(err) THEN "error"
    ELSE IF RenderThrows(u, ld, err) THEN "crashed"
    ELSE "main"

\* ---------------------------------------------------------- UserModal effect
Dom(listeners, overflow, handler) ==
    [listeners |-> listeners, overflow |-> overflow, handler |-> handler]

\* Effect setup: addEventListener("keydown", handleEscape); overflow = "hidden".
\* The listener is a new function object, distinct from every registered one.
EffectSetup(dom) ==
    LET h == CHOOSE n \in 0..Cardinality(dom.listeners) : n \notin dom.listeners
    IN  Dom(dom.listeners \cup {h}, "hidden", Some(h))

\* Effect cleanup that removes the listener and leaves overflow as it is.
EffectCleanupKeepsLock(dom) ==
    Dom(dom.listeners \ Range(dom.handler), dom.overflow, None)

\* Effect cleanup whose removeEventListener names a function that was never
\* registered.
EffectCleanupWrongListener(dom) ==
    Dom(dom.listeners, "auto", None)

\* Effect cleanup that removes the inline style: overflow = "".
EffectCleanupUnsetsOverflow(dom) ==
    Dom(dom.listeners \ Range(dom.handler), "", None)

\* Effect cleanup: removeEventListener("keydown", handleEscape); overflow = "auto".
EffectCleanup(dom) ==
    Dom(dom.listeners \ Range(dom.handler), "auto", None)

\* A commit whose useMemo has the dependency array [users]: a render with the
\* same users reuses the filtered view of the render before.
CommitStaleMemo(u, sel, ld, err, term, rerender) ==
    LET v    == IF view = "unmounted" THEN "unmounted" ELSE RenderView(u, ld, err)
        show == v = "main" /\ sel # None
        filtered == IF u = users THEN JsonArray(rows) ELSE filteredUsers(u, term)
        dom0 == Dom(keydownListeners, bodyOverflow, handleEscape)
        dom1 == IF modalMounted /\ (rerender \/ ~show) THEN EffectCleanup(dom0) ELSE dom0
        dom2 == IF show /\ (rerender \/ ~modalMounted) THEN EffectSetup(dom1) ELSE dom1
    IN  /\ users' = u
        /\ selectedUser' = sel
        /\ loading' = ld
        /\ error' = err
        /\ searchTerm' = term
        /\ view' = v
        /\ rows' = IF v = "main" THEN filtered[1] ELSE <<>>
        /\ subtitle' = IF v = "main" THEN Some(Subtitle(filtered, u, term)) ELSE None
        /\ clearButton' = (v = "main" /\ term # <<>>)
        /\ modalMounted' = show
        /\ modalUser' = IF show THEN sel ELSE None
        /\ keydownListeners' = dom2.listeners
        /\ bodyOverflow' = dom2.overflow
        /\ handleEscape' = dom2.handler

\* A commit in which a mounted UserModal keeps the user it was mounted with.
CommitModalKeepsUser(u, sel, ld, err, term, rerender) ==
    LET v    == IF view = "unmounted" THEN "unmounted" ELSE RenderView(u, ld, err)
        show == v = "main" /\ sel # None
        filtered == filteredUsers(u, term)
        dom0 == Dom(keydownListeners, bodyOverflow, handleEscape)
        dom1 == IF modalMounted /\ (rerender \/ ~show) THEN EffectCleanup(dom0) ELSE dom0
        dom2 == IF show /\ (rerender \/ ~modalMounted) THEN EffectSetup(dom1) ELSE dom1
    IN  /\ users' = u
        /\ selectedUser' = sel
        /\ loading' = ld
        /\ error' = err
        /\ searchTerm' = term
        /\ view' = v
        /\ rows' = IF v = "main" THEN filtered[1] ELSE <<>>
        /\ subtitle' = IF v = "main" THEN Some(Subtitle(filtered, u, term)) ELSE None
        /\ clearButton' = (v = "main" /\ term # <<>>)
        /\ modalMounted' = show
        /\ modalUser' = IF show THEN (IF modalMounted THEN modalUser ELSE sel) ELSE None
        /\ keydownListeners' = dom2.listeners
        /\ bodyOverflow' = dom2.overflow
        /\ handleEscape' = dom2.handler

\* One React commit of App with the given next state.  rerender tells whether
\* App rendered again (a state setter received a new value), which gives
\* UserModal a new onClose and so re-runs its effect.
Commit(u, sel, ld, err, term, rerender) ==
    LET v    == IF view = "unmounted" THEN "unmounted" ELSE RenderView(u, ld, err)
        show == v = "main" /\ sel # None
        filtered == filteredUsers(u, term)
        dom0 == Dom(keydownListeners, bodyOverflow, handleEscape)
        dom1 == IF modalMounted /\ (rerender \/ ~show) THEN EffectCleanup(dom0) ELSE dom0
        dom2 == IF show /\ (rerender \/ ~modalMounted) THEN EffectSetup(dom1) ELSE dom1
    IN  /\ users' = u
        /\ selectedUser' = sel
        /\ loading' = ld
        /\ error' = err
        /\ searchTerm' = term
        /\ view' = v
        /\ rows' = IF v = "main" THEN filtered[1] ELSE <<>>
        /\ subtitle' = IF v = "main" THEN Some(Subtitle(filtered, u, term)) ELSE None
        /\ clearButton' = (v = "main" /\ term # <<>>)
        /\ modalMounted' = show
        /\ modalUser' = IF show THEN sel ELSE None
        /\ keydownListeners' = dom2.listeners
        /\ bodyOverflow' = dom2.overflow
        /\ handleEscape' = dom2.handler

\* --------------------------------------------------------------- fetchUsers
\* catch (err): err instanceof Error ? err.message : "An error occurred"
ErrorMessage(rej) == IF rej.isError THEN rej.message ELSE "An error occurred"

\* fetchUsers from the catch block on: setError(message); setLoading(false).
FetchFailed(rej) ==
    /\ fetchPc' = "done"
    /\ requests' = requests
    /\ thrown' = Some(rej)
    /\ Commit(users, selectedUser, FALSE, Some(ErrorMessage(rej)), searchTerm, TRUE)

\* The request resolves with a response.
FetchResponse(ok) ==
    /\ UNCHANGED postsVars
    /\ view # "unmounted"
    /\ fetchPc = "fetch"
    /\ lastEvent' = Event("response", "", 0, 0)
    /\ IF ok
       THEN /\ fetchPc' = "json"
            /\ UNCHANGED <<users, selectedUser, loading, error, searchTerm, requests, thrown, view,
                           rows, subtitle, clearButton, modalMounted, modalUser, handleEscape, keydownListeners,
                           bodyOverflow>>
       ELSE FetchFailed([isError |-> TRUE, message |-> "Failed to fetch users"])

\* The request rejects.
FetchReject(rej) ==
    /\ UNCHANGED postsVars
    /\ view # "unmounted"
    /\ fetchPc = "fetch"
    /\ lastEvent' = Event("reject", "", 0, 0)
    /\ FetchFailed(rej)

\* response.json() resolves and the array is stored in reverse order:
\* setUsers(data.reverse()).
JsonResolveReversed(data) ==
    /\ UNCHANGED postsVars
    /\ view # "unmounted"
    /\ fetchPc = "json"
    /\ lastEvent' = JsonEvent(data)
    /\ fetchPc' = "done"
    /\ requests' = requests
    /\ thrown' = thrown
    /\ LET stored == IF data = JsonNull THEN data
                     ELSE JsonArray([i \in 1..Len(data[1]) |->
                                        data[1][Len(data[1]) + 1 - i]])
       IN  Commit(stored, selectedUser, FALSE, error, searchTerm, TRUE)

\* response.json() resolves: setUsers(data); setLoading(false).
JsonResolve(data) ==
    /\ UNCHANGED postsVars
    /\ view # "unmounted"
    /\ fetchPc = "json"
    /\ lastEvent' = JsonEvent(data)
    /\ fetchPc' = "done"
    /\ requests' = requests
    /\ thrown' = thrown
    /\ Commit(data, selectedUser, FALSE, error, searchTerm, TRUE)

\* response.json() rejects.
JsonReject(rej) ==
    /\ UNCHANGED postsVars
    /\ view # "unmounted"
    /\ fetchPc = "json"
    /\ lastEvent' = Event("jsonReject", "", 0, 0)
    /\ FetchFailed(rej)

\* ------------------------------------------------------------- App handlers
\* handleUserClick that also moves the clicked user to the front of users.
handleUserClickMovesToFront(user) ==
    /\ fetchPc' = fetchPc
    /\ requests' = requests
    /\ thrown' = thrown
    /\ LET Other(u) == u.id # user.id
       IN  Commit(JsonArray(<<user>> \o SelectSeq(users[1], Other)), Some(user),
                  loading, error, searchTerm, TRUE)

\* handleUserClick(user): setSelectedUser(user).
handleUserClick(user) ==
    /\ fetchPc' = fetchPc
    /\ requests' = requests
    /\ thrown' = thrown
    /\ Commit(users, Some(user), loading, error, searchTerm,
              selectedUser # Some(user))

\* The cells of a row of UserTable, by column.
Cells == {"name", "address", "phone", "website", "company", "action"}

\* The cell's td has onClick={() => onUserClick(user)}: every cell but the
\* action cell.
cellHasOnClick(cell) == cell # "action"

\* A click on a cell of a row, outside the website link and the delete button.
CellClick(user, cell) ==
    /\ UNCHANGED postsVars
    /\ view = "main"
    /\ user \in Range(rows)
    /\ LET n == IF cellHasOnClick(cell) THEN 1 ELSE 0
       IN  /\ lastEvent' = ClickEvent("cellClick", cell, user.id, n, 0)
           /\ IF n = 1
              THEN handleUserClick(user)
              ELSE UNCHANGED <<users, selectedUser, loading, error, searchTerm,
                               fetchPc, requests, thrown, view, rows, subtitle, clearButton, modalMounted, modalUser, handleEscape,
                               keydownListeners, bodyOverflow>>

\* A click on the website link of a row without e.stopPropagation(): the
\* click bubbles to the cell's onClick.
WebsiteLinkClickBubbles(user) ==
    /\ UNCHANGED postsVars
    /\ view = "main"
    /\ user \in Range(rows)
    /\ lastEvent' = ClickEvent("linkClick", "website", user.id, 1, 0)
    /\ handleUserClick(user)

\* A click on the website link of a row: e.stopPropagation(), so the cell's
\* onClick does not run.
WebsiteLinkClick(user) ==
    /\ UNCHANGED postsVars
    /\ view = "main"
    /\ user \in Range(rows)
    /\ lastEvent' = ClickEvent("linkClick", "website", user.id, 0, 0)
    /\ UNCHANGED <<users, selectedUser, loading, error, searchTerm,
                   fetchPc, requests, thrown, view, rows, subtitle, clearButton, modalMounted, modalUser, handleEscape,
                   keydownListeners, bodyOverflow>>

\* A handleCloseModal that leaves selectedUser as it is.
CloseModalKeepsSelection(n) ==
    UNCHANGED <<users, selectedUser, loading, error, searchTerm, view,
                rows, subtitle, clearButton, modalMounted, modalUser, handleEscape, keydownListeners,
                bodyOverflow>>

\* handleCloseModal, called n times by one event.
CloseModal(n) ==
    IF n = 0
    THEN UNCHANGED <<users, selectedUser, loading, error, searchTerm, view,
                     rows, subtitle, clearButton, modalMounted, modalUser, handleEscape, keydownListeners,
                     bodyOverflow>>
    ELSE Commit(users, None, loading, error, searchTerm, selectedUser # None)

\* Removal by index: splice(findIndex(...), 1), where findIndex gives -1 for
\* an absent id and splice(-1, 1) removes the last element.
usersWithoutSplice(u, id) ==
    LET a == u[1]
    IN  IF \E i \in 1..Len(a) : a[i].id = id
        THEN LET k == CHOOSE i \in 1..Len(a) :
                          a[i].id = id /\ \A j \in 1..(i - 1) : a[j].id # id
             IN  JsonArray(SubSeq(a, 1, k - 1) \o SubSeq(a, k + 1, Len(a)))
        ELSE JsonArray(SubSeq(a, 1, Len(a) - 1))

\* Removal by two slices whose bounds both include the removed index.
usersWithoutSliceOverlap(u, id) ==
    LET a == u[1]
    IN  IF \E i \in 1..Len(a) : a[i].id = id
        THEN LET k == CHOOSE i \in 1..Len(a) : a[i].id = id
             IN  JsonArray(SubSeq(a, 1, k) \o SubSeq(a, k, Len(a)))
        ELSE u

\* A removal that puts the users with the given id at the end of the array.
usersWithoutMovesToEnd(u, id) ==
    LET Keep(user) == user.id # id
        Drop(user) == user.id = id
    IN  JsonArray(SelectSeq(u[1], Keep) \o SelectSeq(u[1], Drop))

\* users.filter((user) => user.id !== userId)
usersWithout(u, id) ==
    LET Keep(user) == user.id # id
    IN  JsonArray(SelectSeq(u[1], Keep))

\* handleDeleteUser that filters the displayed rows, not users.
handleDeleteUserFromRows(id) ==
    /\ UNCHANGED postsVars
    /\ view = "main"
    /\ \E user \in Range(rows) : user.id = id
    /\ lastEvent' = ClickEvent("delete", "action", id, 0, 1)
    /\ fetchPc' = fetchPc
    /\ requests' = requests
    /\ thrown' = thrown
    /\ Commit(usersWithout(JsonArray(rows), id), selectedUser, loading,
              error, searchTerm, TRUE)

\* handleDeleteUser that also starts a reload: setLoading(true).
handleDeleteUserReload(id) ==
    /\ UNCHANGED postsVars
    /\ view = "main"
    /\ \E user \in Range(rows) : user.id = id
    /\ lastEvent' = ClickEvent("delete", "action", id, 0, 1)
    /\ fetchPc' = fetchPc
    /\ requests' = requests
    /\ thrown' = thrown
    /\ Commit(usersWithout(users, id), selectedUser, TRUE,
              error, searchTerm, TRUE)

\* handleDeleteUser that clears the selection when it deletes the selected user.
handleDeleteUserDeselects(id) ==
    /\ UNCHANGED postsVars
    /\ view = "main"
    /\ \E user \in Range(rows) : user.id = id
    /\ lastEvent' = ClickEvent("delete", "action", id, 0, 1)
    /\ fetchPc' = fetchPc
    /\ requests' = requests
    /\ thrown' = thrown
    /\ LET sel == IF selectedUser # None /\ selectedUser[1].id = id
                  THEN None ELSE selectedUser
       IN  Commit(usersWithout(users, id), sel, loading,
                  error, searchTerm, TRUE)

\* handleDeleteUser that calls fetchUsers again after the removal.
handleDeleteUserRefetches(id) ==
    /\ UNCHANGED postsVars
    /\ view = "main"
    /\ \E user \in Range(rows) : user.id = id
    /\ Len(requests) < 2
    /\ lastEvent' = ClickEvent("delete", "action", id, 0, 1)
    /\ fetchPc' = "fetch"
    /\ requests' = Append(requests, UsersEndpoint)
    /\ thrown' = thrown
    /\ Commit(usersWithout(users, id), selectedUser, TRUE,
              error, searchTerm, TRUE)

\* A click on a row's delete button: e.stopPropagation() (and the action cell
\* has no onClick), then onDeleteUser(user.id), which is handleDeleteUser(userId).
handleDeleteUser(id) ==
    /\ UNCHANGED postsVars
    /\ view = "main"
    /\ \E user \in Range(rows) : user.id = id
    /\ lastEvent' = ClickEvent("delete", "action", id, 0, 1)
    /\ fetchPc' = fetchPc
    /\ requests' = requests
    /\ thrown' = thrown
    /\ Commit(usersWithout(users, id), selectedUser, loading,
              error, searchTerm, TRUE)

\* handleSearchChange that ignores an empty value.
handleSearchChangeIgnoresEmpty(newSearchTerm) ==
    /\ fetchPc' = fetchPc
    /\ requests' = requests
    /\ thrown' = thrown
    /\ IF newSearchTerm = <<>>
       THEN UNCHANGED <<users, selectedUser, loading, error, searchTerm, view,
                        rows, subtitle, clearButton, modalMounted, modalUser, handleEscape,
                        keydownListeners, bodyOverflow>>
       ELSE Commit(users, selectedUser, loading, error, newSearchTerm,
                   newSearchTerm # searchTerm)

\* handleSearchChange that trims: setSearchTerm(newSearchTerm.trim()).
handleSearchChangeTrims(newSearchTerm) ==
    /\ fetchPc' = fetchPc
    /\ requests' = requests
    /\ thrown' = thrown
    /\ Commit(users, selectedUser, loading, error, trim(newSearchTerm),
              trim(newSearchTerm) # searchTerm)

\* handleSearchChange(newSearchTerm): setSearchTerm(newSearchTerm).
handleSearchChange(newSearchTerm) ==
    /\ fetchPc' = fetchPc
    /\ requests' = requests
    /\ thrown' = thrown
    /\ Commit(users, selectedUser, loading, error, newSearchTerm,
              newSearchTerm # searchTerm)

\* SearchBar.handleInputChange: a change event of the search input reports
\* event.target.value upward.
handleInputChange(value) ==
    /\ UNCHANGED postsVars
    /\ view = "main"
    /\ lastEvent' = SearchEvent("search", value)
    /\ handleSearchChange(value)

\* SearchBar.handleClearSearch: a click on the clear button reports "" upward.
handleClearSearch ==
    /\ UNCHANGED postsVars
    /\ clearButton
    /\ lastEvent' = SearchEvent("clear", <<>>)
    /\ handleSearchChange(<<>>)

\* --------------------------------------------------------- UserModal events
\* A keydown event on document: every registered handleEscape runs, and calls
\* onClose when the key is Escape.
KeyDown(key) ==
    /\ UNCHANGED postsVars
    /\ view # "unmounted"
    /\ LET n == IF key = "Escape" THEN Cardinality(keydownListeners) ELSE 0
       IN  /\ lastEvent' = Event("keydown", key, 0, n)
           /\ CloseModal(n)
    /\ fetchPc' = fetchPc
    /\ requests' = requests
    /\ thrown' = thrown

\* handleBackdropClick without the test of event.target.
backdropCloseCallsAnyTarget(targetIsOverlay) == 1

\* The onClose calls handleBackdropClick makes for a click that reaches the
\* overlay element: one if event.target === event.currentTarget, else none.
backdropCloseCalls(targetIsOverlay) == IF targetIsOverlay THEN 1 ELSE 0

\* handleBackdropClick: a click inside the overlay; onBackdrop tells whether
\* event.target is the overlay element itself.
handleBackdropClick(onBackdrop) ==
    /\ UNCHANGED postsVars
    /\ modalMounted
    /\ LET n == backdropCloseCalls(onBackdrop)
       IN  /\ lastEvent' = Event(IF onBackdrop THEN "backdrop" ELSE "panel", "", 0, n)
           /\ CloseModal(n)
    /\ fetchPc' = fetchPc
    /\ requests' = requests
    /\ thrown' = thrown

\* A click on the close button: onClose, then the click bubbles to the
\* overlay, where target is the button and handleBackdropClick does nothing.
CloseButtonClick ==
    /\ UNCHANGED postsVars
    /\ modalMounted
    /\ LET n == 1 + backdropCloseCalls(FALSE)
       IN  /\ lastEvent' = Event("closeButton", "", 0, n)
           /\ CloseModal(n)
    /\ fetchPc' = fetchPc
    /\ requests' = requests
    /\ thrown' = thrown

\* The React root is unmounted: every live effect is cleaned up.
Unmount ==
    /\ UNCHANGED postsVars
    /\ view \notin {"unmounted", "crashed"}
    /\ lastEvent' = Event("unmount", "", 0, 0)
    /\ LET dom0 == Dom(keydownListeners, bodyOverflow, handleEscape)
           dom1 == IF modalMounted THEN EffectCleanup(dom0) ELSE dom0
       IN  /\ view' = "unmounted"
           /\ rows' = <<>>
           /\ subtitle' = None
           /\ clearButton' = FALSE
           /\ modalMounted' = FALSE
           /\ modalUser' = None
           /\ keydownListeners' = dom1.listeners
           /\ bodyOverflow' = dom1.overflow
           /\ handleEscape' = dom1.handler
    /\ UNCHANGED <<users, selectedUser, loading, error, searchTerm, fetchPc, requests, thrown>>

\* ---------------------------------------------------------------- PostsList
PostsEvent(kind, uid, id) == [kind |-> kind, uid |-> uid, id |-> id]

Call(uid, pc, latest) == [uid |-> uid, pc |-> pc, latest |-> latest]

\* s without its i-th element.
RemoveAt(s, i) == SubSeq(s, 1, i - 1) \o SubSeq(s, i + 1, Len(s))

\* The branch PostsList renders; posts.length throws when posts is null.
PostsRenderView(p, ld, err) ==
    IF ld THEN "loading"
    ELSE IF Truthy(err) THEN "error"
    ELSE IF p = JsonNull THEN "crashed"
    ELSE IF Len(p[1]) = 0 THEN "empty"
    ELSE "loaded"

\* One React commit of PostsList with the given next state.
PostsCommit(p, ld, err) ==
    /\ posts' = p
    /\ postsLoading' = ld
    /\ postsError' = err
    /\ postsView' = PostsRenderView(p, ld, err)

\* The state of a request: "pending", "failed" or "succeeded" with its body.
FetchOf(status, data) == [status |-> status, data |-> data]

\* Call i settles with the given state: it is recorded if the call is the one
\* of the last effect run.
Settle(i, fetch) ==
    latestFetch' = IF calls[i].latest THEN fetch ELSE latestFetch

\* fetchPosts from the catch block on: setError(message); setLoading(false).
PostsFailed(i, rej) ==
    /\ calls' = RemoveAt(calls, i)
    /\ Settle(i, FetchOf("failed", None))
    /\ PostsCommit(posts, FALSE, Some(ErrorMessage(rej)))

\* A userId change whose effect also collapses: setExpandedPost(null).
UserIdChangeResetsExpanded(newId) ==
    /\ UNCHANGED appVars
    /\ postsView # "crashed"
    /\ newId # userId
    /\ Len(calls) < MaxInFlight
    /\ userIdChanges < MaxChanges
    /\ userId' = newId
    /\ userIdChanges' = userIdChanges + 1
    /\ fetchCount' = fetchCount + 1
    /\ latestFetch' = FetchOf("pending", None)
    /\ calls' = Append([i \in 1..Len(calls) |-> Call(calls[i].uid, calls[i].pc, FALSE)],
                       Call(newId, "fetch", TRUE))
    /\ PostsCommit(posts, TRUE, None)
    /\ postsEvent' = PostsEvent("userId", newId, 0)
    /\ expandedPost' = None

\* The parent passes another userId: the effect runs again and fetchPosts
\* starts: setLoading(true); setError(null); fetch(...).
UserIdChange(newId) ==
    /\ UNCHANGED appVars
    /\ postsView # "crashed"
    /\ newId # userId
    /\ Len(calls) < MaxInFlight
    /\ userIdChanges < MaxChanges
    /\ userId' = newId
    /\ userIdChanges' = userIdChanges + 1
    /\ fetchCount' = fetchCount + 1
    /\ latestFetch' = FetchOf("pending", None)
    /\ calls' = Append([i \in 1..Len(calls) |-> Call(calls[i].uid, calls[i].pc, FALSE)],
                       Call(newId, "fetch", TRUE))
    /\ PostsCommit(posts, TRUE, None)
    /\ postsEvent' = PostsEvent("userId", newId, 0)
    /\ UNCHANGED expandedPost

\* The request of call i resolves with a response.
PostsResponse(i, ok) ==
    /\ UNCHANGED appVars
    /\ postsView # "crashed"
    /\ i \in 1..Len(calls)
    /\ calls[i].pc = "fetch"
    /\ postsEvent' = PostsEvent("response", calls[i].uid, 0)
    /\ IF ok
       THEN /\ calls' = [calls EXCEPT ![i].pc = "json"]
            /\ UNCHANGED <<posts, postsLoading, postsError, postsView, latestFetch>>
       ELSE PostsFailed(i, [isError |-> TRUE, message |-> "Failed to fetch posts"])
    /\ UNCHANGED <<userId, expandedPost, fetchCount, userIdChanges>>

\* The request of call i rejects.
PostsReject(i, rej) ==
    /\ UNCHANGED appVars
    /\ postsView # "crashed"
    /\ i \in 1..Len(calls)
    /\ calls[i].pc = "fetch"
    /\ postsEvent' = PostsEvent("reject", calls[i].uid, 0)
    /\ PostsFailed(i, rej)
    /\ UNCHANGED <<userId, expandedPost, fetchCount, userIdChanges>>

\* response.json() of call i resolves: setPosts(postsData); setLoading(false).
PostsJsonResolve(i, postsData) ==
    /\ UNCHANGED appVars
    /\ postsView # "crashed"
    /\ i \in 1..Len(calls)
    /\ postsData \in PostPayloads(calls[i].uid)
    /\ calls[i].pc = "json"
    /\ postsEvent' = PostsEvent("json", calls[i].uid, 0)
    /\ calls' = RemoveAt(calls, i)
    /\ Settle(i, FetchOf("succeeded", postsData))
    /\ PostsCommit(postsData, FALSE, postsError)
    /\ UNCHANGED <<userId, expandedPost, fetchCount, userIdChanges>>

\* response.json() of call i rejects.
PostsJsonReject(i, rej) ==
    /\ UNCHANGED appVars
    /\ postsView # "crashed"
    /\ i \in 1..Len(calls)
    /\ calls[i].pc = "json"
    /\ postsEvent' = PostsEvent("jsonReject", calls[i].uid, 0)
    /\ PostsFailed(i, rej)
    /\ UNCHANGED <<userId, expandedPost, fetchCount, userIdChanges>>

\* togglePostExpansion under an effect without a dependency array: the render
\* it causes runs the effect, which starts fetchPosts again.
togglePostExpansionRefetches(postId) ==
    /\ UNCHANGED appVars
    /\ postsView = "loaded"
    /\ \E i \in 1..Len(posts[1]) : posts[1][i].id = postId
    /\ Len(calls) < MaxInFlight
    /\ fetchCount <= MaxChanges
    /\ expandedPost' = IF expandedPost = Some(postId) THEN None ELSE Some(postId)
    /\ postsEvent' = PostsEvent("toggle", userId, postId)
    /\ calls' = Append([i \in 1..Len(calls) |-> Call(calls[i].uid, calls[i].pc, FALSE)],
                       Call(userId, "fetch", TRUE))
    /\ fetchCount' = fetchCount + 1
    /\ latestFetch' = FetchOf("pending", None)
    /\ PostsCommit(posts, TRUE, None)
    /\ UNCHANGED <<userId, userIdChanges>>

\* togglePostExpansion that always expands the clicked post.
togglePostExpansionNeverCollapses(postId) ==
    /\ UNCHANGED appVars
    /\ postsView = "loaded"
    /\ \E i \in 1..Len(posts[1]) : posts[1][i].id = postId
    /\ expandedPost' = Some(postId)
    /\ postsEvent' = PostsEvent("toggle", userId, postId)
    /\ UNCHANGED <<userId, posts, postsLoading, postsError, calls, postsView,
                   fetchCount, userIdChanges, latestFetch>>

\* togglePostExpansion(postId), reached from the header button of a post.
togglePostExpansion(postId) ==
    /\ UNCHANGED appVars
    /\ postsView = "loaded"
    /\ \E i \in 1..Len(posts[1]) : posts[1][i].id = postId
    /\ expandedPost' = IF expandedPost = Some(postId) THEN None ELSE Some(postId)
    /\ postsEvent' = PostsEvent("toggle", userId, postId)
    /\ UNCHANGED <<userId, posts, postsLoading, postsError, calls, postsView,
                   fetchCount, userIdChanges, latestFetch>>

\* The parent renders PostsList again with the same userId: the dependency
\* [userId] is unchanged and the effect does not run.
ParentRerender ==
    /\ UNCHANGED appVars
    /\ postsView # "crashed"
    /\ postsEvent' = PostsEvent("rerender", userId, 0)
    /\ UNCHANGED <<userId, posts, postsLoading, postsError, expandedPost, calls,
                   postsView, fetchCount, userIdChanges, latestFetch>>

\* ------------------------------------------------------------ specification
\* App after mount with a user as the initial value of selectedUser.
AppInitSelected ==
    /\ users = JsonArray(<<>>)
    /\ selectedUser = Some(AnnLee)
    /\ loading = TRUE
    /\ error = None
    /\ searchTerm = <<>>
    /\ fetchPc = "fetch"
    /\ requests = <<UsersEndpoint>>
    /\ thrown = None
    /\ view = "loading"
    /\ rows = <<>>
    /\ subtitle = None
    /\ clearButton = FALSE
    /\ modalMounted = FALSE
    /\ modalUser = None
    /\ handleEscape = None
    /\ keydownListeners = {}
    /\ bodyOverflow \in {"", "auto"}
    /\ lastEvent = Event("mount", "", 0, 0)

\* App after mount: the initial state of useState, fetchUsers awaiting fetch.
AppInit ==
    /\ users = JsonArray(<<>>)
    /\ selectedUser = None
    /\ loading = TRUE
    /\ error = None
    /\ searchTerm = <<>>
    /\ fetchPc = "fetch"
    /\ requests = <<UsersEndpoint>>
    /\ thrown = None
    /\ view = "loading"
    /\ rows = <<>>
    /\ subtitle = None
    /\ clearButton = FALSE
    /\ modalMounted = FALSE
    /\ modalUser = None
    /\ handleEscape = None
    /\ keydownListeners = {}
    /\ bodyOverflow \in {"", "auto"}
    /\ lastEvent = Event("mount", "", 0, 0)

Next ==
    \/ \E ok \in BOOLEAN : FetchResponse(ok)
    \/ \E rej \in Rejections : FetchReject(rej)
    \/ \E data \in Payloads : JsonResolve(data)
    \/ \E rej \in Rejections : JsonReject(rej)
    \/ \E user \in Catalogue, cell \in Cells : CellClick(user, cell)
    \/ \E user \in Catalogue : WebsiteLinkClick(user)
    \/ \E user \in Catalogue : handleDeleteUser(user.id)
    \/ \E term \in Terms : handleInputChange(term)
    \/ handleClearSearch
    \/ \E key \in Keys : KeyDown(key)
    \/ \E onBackdrop \in BOOLEAN : handleBackdropClick(onBackdrop)
    \/ CloseButtonClick
    \/ Unmount

\* PostsList after mount: the initial state of useState, the first fetchPosts
\* awaiting fetch.
PostsInit ==
    /\ userId \in UserIds
    /\ posts = JsonArray(<<>>)
    /\ postsLoading = TRUE
    /\ postsError = None
    /\ expandedPost = None
    /\ calls = <<Call(userId, "fetch", TRUE)>>
    /\ postsView = "loading"
    /\ postsEvent = PostsEvent("mount", userId, 0)
    /\ fetchCount = 1
    /\ userIdChanges = 0
    /\ latestFetch = FetchOf("pending", None)

NextPosts ==
    \/ \E id \in UserIds : UserIdChange(id)
    \/ \E i \in 1..MaxInFlight, ok \in BOOLEAN : PostsResponse(i, ok)
    \/ \E i \in 1..MaxInFlight, rej \in Rejections : PostsReject(i, rej)
    \/ \E i \in 1..MaxInFlight, uid \in UserIds :
           \E postsData \in PostPayloads(uid) : PostsJsonResolve(i, postsData)
    \/ \E i \in 1..MaxInFlight, rej \in Rejections : PostsJsonReject(i, rej)
    \/ \E uid \in UserIds, n \in 1..MaxPosts : togglePostExpansion(PostsOf(uid)[n].id)
    \/ ParentRerender

Init == AppInit /\ PostsInit

\* The App with its table, search input and overlay.
Spec == Init /\ [][Next]_vars

\* The PostsList component under a parent that changes its userId prop.
PostsSpec == Init /\ [][NextPosts]_vars

\* The promise fetch returned settles: it resolves with a response or rejects.
RequestSettles ==
    \/ \E ok \in BOOLEAN : FetchResponse(ok)
    \/ \E rej \in Rejections : FetchReject(rej)

\* The promise response.json() returned settles.
BodySettles ==
    \/ \E data \in Payloads : JsonResolve(data)
    \/ \E rej \in Rejections : JsonReject(rej)

\* App under a network whose promises settle: a continuation of fetchUsers
\* that stays awaited is run in the end.
LiveSpec == Spec /\ WF_vars(RequestSettles) /\ WF_vars(BodySettles)

\* ------------------------------------------------------------------- claims
SettleKinds == {"response", "reject", "json", "jsonReject"}

\* C1: in PostsList, the resolution or rejection of a fetch issued for a user
\* id other than the current userId changes none of posts, error, loading.
StaleResponseIgnored ==
    [][(postsEvent'.kind \in SettleKinds /\ postsEvent'.uid # userId')
          => UNCHANGED <<posts, postsError, postsLoading>>]_vars

\* C2: whenever a user is selected, that user is an element of records.
SelectedInRecords ==
    selectedUser # None =>
        /\ users # JsonNull
        /\ \E i \in 1..Len(users[1]) : users[1][i] = selectedUser[1]

\* C3: the page scroll is locked exactly while the overlay is mounted: locked
\* whenever UserModal is mounted, released once it is closed or unmounted.
ScrollLockFollowsOverlay ==
    /\ modalMounted => bodyOverflow = "hidden"
    /\ ~modalMounted => bodyOverflow # "hidden"

\* The overlay was open and Escape closed it; the lock is released.
ScrollLockReleasedByEscape ==
    /\ lastEvent = Event("keydown", "Escape", 0, 1)
    /\ ~modalMounted
    /\ bodyOverflow = "auto"

ListenerCount ==
    Cardinality(keydownListeners) = IF modalMounted THEN 1 ELSE 0

EscapeIdle ==
    (~modalMounted /\ lastEvent'.kind = "keydown")
        => lastEvent'.closeCalls = 0 /\ selectedUser' = selectedUser

\* C4: exactly one keydown listener is registered while the overlay is mounted
\* and none while it is not, and a key press while no overlay is open never
\* invokes the close callback.
KeyListenerLifecycle == []ListenerCount /\ [][EscapeIdle]_vars

\* Escape was pressed in the main view while no overlay was open.
EscapeWithoutOverlay ==
    /\ lastEvent = Event("keydown", "Escape", 0, 0)
    /\ view = "main"
    /\ users # JsonArray(<<>>)
    /\ keydownListeners = {}

\* The fetch status of the user list, read from loading and error.
FetchStatus ==
    IF loading THEN "pending"
    ELSE IF error # None THEN "failed"
    ELSE "succeeded"

\* C5: the user-list fetch status starts pending; once it is succeeded or
\* failed it never changes again, loading never becomes true again and error
\* keeps its value.
FetchStatusTerminal ==
    /\ FetchStatus = "pending"
    /\ [][FetchStatus # "pending"
            => /\ FetchStatus' = FetchStatus
               /\ loading' = loading
               /\ error' = error]_vars

\* A user event was handled after the fetch had settled.
UserEventAfterFetch ==
    /\ FetchStatus = "succeeded"
    /\ lastEvent.kind = "delete"

\* C6: after a failed user-list fetch records is empty, the error view is
\* shown, and the table, the search control and the overlay are not rendered.
FailedFetchShowsError ==
    (fetchPc = "done" /\ error # None) =>
        /\ users = JsonArray(<<>>)
        /\ view \in {"error", "unmounted"}
        /\ rows = <<>>
        /\ ~modalMounted
        /\ selectedUser = None

\* C7: a successful response whose body is null is not an error and does not
\* crash: App shows the main view with a table without rows.
NullPayloadRendersTable ==
    (fetchPc = "done" /\ users = JsonNull) =>
        /\ error = None
        /\ view \in {"main", "unmounted"}
        /\ rows = <<>>

\* C8: handleDeleteUser leaves selected unchanged, and the overlay as it was.
DeleteKeepsSelection ==
    [][lastEvent'.kind = "delete"
         => selectedUser' = selectedUser /\ modalMounted' = modalMounted]_vars

\* The selected user was deleted while the overlay was open.
SelectedUserDeleted ==
    /\ lastEvent.kind = "delete"
    /\ selectedUser # None
    /\ lastEvent.id = selectedUser[1].id
    /\ modalMounted

\* a and b are the same character up to ASCII letter case.
SameLetter(a, b) ==
    a = b \/ \E i \in 1..Len(Uppers) : {a, b} = {Uppers[i], Lowers[i]}

\* t occurs in s at some position, letter case ignored.
OccursIn(t, s) ==
    \E k \in 0..(Len(s) - Len(t)) :
        \A j \in 1..Len(t) : SameLetter(s[k + j], t[j])

Matches(user, term) ==
    \/ OccursIn(term, user.name)
    \/ OccursIn(term, user.email)
    \/ OccursIn(term, user.company.name)
    \/ OccursIn(term, user.username)

IsBlank(term) == \A i \in 1..Len(term) : term[i] \in {" ", "\t"}

\* C9: for a term with a non-whitespace character, the rows shown are exactly
\* the records in which the term occurs, case ignored, in name, email,
\* company.name or username.
FilterSoundComplete ==
    (view = "main" /\ ~IsBlank(searchTerm)) =>
        /\ Range(rows) = {user \in Range(users[1]) : Matches(user, searchTerm)}
        /\ Len(rows) <= Len(users[1])

\* A term that only one user's username contains selects that user among three.
FilterByUsername ==
    /\ view = "main"
    /\ searchTerm = <<"z","e","d">>
    /\ Len(users[1]) = 3
    /\ rows = <<Cy>>

\* C10: with the empty term or a term of white space only, the rows shown are
\* records, same elements in the same order.
FilterIdentity ==
    (view = "main" /\ IsBlank(searchTerm)) => rows = users[1]

\* A white-space term shows all three users, one of them without a space in
\* any field.
FilterBlankTerm ==
    /\ view = "main"
    /\ searchTerm = <<"\t", " ">>
    /\ Len(rows) = 3
    /\ Bob \in Range(rows)

UserIdsOf(a) == {a[i].id : i \in 1..Len(a)}

CatalogueIds == {user.id : user \in Catalogue}

\* C11: deleting an id that no record has leaves records unchanged, and
\* deleting the same id twice gives the same records as deleting it once.
DeleteAbsentIsNoOp ==
    view = "main" =>
        \A id \in CatalogueIds :
            /\ id \notin UserIdsOf(users[1]) => usersWithout(users, id) = users
            /\ usersWithout(usersWithout(users, id), id) = usersWithout(users, id)

\* A user was deleted and others remain: its id is now absent from records.
DeletedIdAbsent ==
    /\ view = "main"
    /\ lastEvent.kind = "delete"
    /\ lastEvent.id \notin UserIdsOf(users[1])
    /\ Len(users[1]) = 2

\* a without its i-th element.
WithoutIndex(a, i) == SubSeq(a, 1, i - 1) \o SubSeq(a, i + 1, Len(a))

\* C12: handleDeleteUser(id) removes from records the one entry whose id is id
\* and keeps every other record in place; the table stays rendered, also when
\* records becomes empty.
DeleteRemovesOneRow ==
    [][lastEvent'.kind = "delete"
         => /\ \E i \in 1..Len(users[1]) :
                   /\ users[1][i].id = lastEvent'.id
                   /\ users'[1] = WithoutIndex(users[1], i)
            /\ view' = "main"]_vars

\* The last record was deleted: the table is rendered without rows.
LastRowDeleted ==
    /\ lastEvent.kind = "delete"
    /\ users = JsonArray(<<>>)
    /\ view = "main"

\* No two positions of a hold records with the same id.
UniqueIds(a) == \A i, j \in 1..Len(a) : a[i].id = a[j].id => i = j

\* C13: no two entries of records, and no two rendered rows, have the same id.
UniqueIdInvariant ==
    view = "main" => UniqueIds(users[1]) /\ UniqueIds(rows)

\* Two rows remain rendered after a delete.
TwoRowsAfterDelete ==
    /\ view = "main"
    /\ lastEvent.kind = "delete"
    /\ Len(rows) = 2

\* The onClose calls the claim expects of an event on the open overlay.
ExpectedCloseCalls(e) ==
    IF e.kind = "keydown" THEN (IF e.key = "Escape" THEN 1 ELSE 0)
    ELSE IF e.kind \in {"backdrop", "closeButton"} THEN 1
    ELSE 0

\* C14: while the overlay is open, an Escape key press, a click on the backdrop
\* itself and a click on the close button each invoke the close callback
\* exactly once; a click inside the panel and any other key invoke it never.
OverlayDismissal ==
    [][(modalMounted /\ lastEvent'.kind \in
            {"keydown", "backdrop", "panel", "closeButton"})
         => /\ lastEvent'.closeCalls = ExpectedCloseCalls(lastEvent')
            /\ selectedUser' = IF lastEvent'.closeCalls = 0
                               THEN selectedUser ELSE None]_vars

\* A click inside the panel left the overlay open.
PanelClickKeepsOverlay ==
    /\ lastEvent.kind = "panel"
    /\ lastEvent.closeCalls = 0
    /\ modalMounted

\* C15: a select followed immediately by a deselect leaves selected none, the
\* overlay unmounted, its key listener removed and the scroll lock released.
SelectThenDeselect ==
    [][(lastEvent.kind = "cellClick" /\ lastEvent.selectCalls = 1
            /\ lastEvent'.closeCalls >= 1)
         => /\ selectedUser # None
            /\ selectedUser[1].id = lastEvent.id
            /\ selectedUser' = None
            /\ ~modalMounted'
            /\ bodyOverflow' # "hidden"
            /\ keydownListeners' = {}]_vars

\* The overlay was dismissed by a backdrop click and the lock is released.
DeselectedByBackdrop ==
    /\ lastEvent.kind = "backdrop"
    /\ lastEvent.closeCalls = 1
    /\ selectedUser = None
    /\ ~modalMounted
    /\ bodyOverflow = "auto"

\* C16: a click on any cell of a row, outside the delete button and the
\* website link, invokes onSelect exactly once with that row's record.
CellClickSelects ==
    [][lastEvent'.kind = "cellClick"
         => /\ lastEvent'.selectCalls = 1
            /\ selectedUser' # None
            /\ selectedUser'[1] \in Range(rows)
            /\ selectedUser'[1].id = lastEvent'.id]_vars

\* C17: a click on a row's delete button invokes onDelete once with the row's
\* id and never onSelect; a click on a row's website link invokes neither; so
\* neither click changes selected.
ButtonAndLinkDoNotSelect ==
    [][/\ lastEvent'.kind = "delete"
           => /\ lastEvent'.deleteCalls = 1
              /\ lastEvent'.selectCalls = 0
              /\ lastEvent'.id \in UserIdsOf(rows)
              /\ lastEvent'.id \notin UserIdsOf(users'[1])
              /\ selectedUser' = selectedUser
       /\ lastEvent'.kind = "linkClick"
           => /\ lastEvent'.deleteCalls = 0
              /\ lastEvent'.selectCalls = 0
              /\ users' = users
              /\ selectedUser' = selectedUser]_vars

\* The website link of a row was clicked and no user is selected.
LinkClickedNoSelection ==
    /\ lastEvent.kind = "linkClick"
    /\ view = "main"
    /\ selectedUser = None

ClearButtonShown ==
    clearButton <=> (view = "main" /\ searchTerm # <<>>)

ClearReportsEmpty ==
    lastEvent'.kind = "clear"
        => /\ searchTerm # <<>>
           /\ searchTerm' = <<>>
           /\ rows' = users[1]
           /\ ~clearButton'

\* C18: the clear button is rendered exactly when searchTerm is non-empty, and
\* a click on it reports the empty string, after which searchTerm is empty and
\* the rows shown are records.
ClearButton == []ClearButtonShown /\ [][ClearReportsEmpty]_vars

\* The search was cleared and all three records are shown again.
SearchCleared ==
    /\ lastEvent.kind = "clear"
    /\ searchTerm = <<>>
    /\ ~clearButton
    /\ Len(rows) = 3

FetchPerUserId ==
    /\ fetchCount = userIdChanges + 1
    /\ \A i \in 1..Len(calls) : calls[i].latest => calls[i].uid = userId

FetchOnlyOnUserIdChange ==
    fetchCount' # fetchCount
        => /\ postsEvent'.kind = "userId"
           /\ userId' # userId
           /\ fetchCount' = fetchCount + 1
           /\ calls'[Len(calls')] = Call(userId', "fetch", TRUE)

\* C19: PostsList issues one request on mount and one for each change of
\* userId, with that userId, and none otherwise: after n changes exactly n + 1
\* requests have been issued; expanding or collapsing a post issues none.
OneFetchPerUserId == []FetchPerUserId /\ [][FetchOnlyOnUserIdChange]_vars

\* A post was toggled after two changes of userId; three requests were issued.
ToggleAfterTwoChanges ==
    /\ postsEvent.kind = "toggle"
    /\ userIdChanges = 2
    /\ fetchCount = 3

\* The positions of the posts rendered expanded (expandedPost === post.id).
ExpandedPosts == {i \in 1..Len(posts[1]) : expandedPost = Some(posts[1][i].id)}

AtMostOneExpanded ==
    postsView = "loaded" => Cardinality(ExpandedPosts) <= 1

ToggleExpandsOrCollapses ==
    postsEvent'.kind = "toggle"
        => IF expandedPost = Some(postsEvent'.id)
           THEN expandedPost' = None
           ELSE /\ expandedPost' = Some(postsEvent'.id)
                /\ \E i \in 1..Len(posts'[1]) : posts'[1][i].id = postsEvent'.id

\* C20: at most one post is expanded; a click on a collapsed post expands it
\* and collapses any other, a click on the expanded post leaves none expanded.
SingleExpandedPost == []AtMostOneExpanded /\ [][ToggleExpandsOrCollapses]_vars

\* The second of two posts was expanded by a click.
SecondPostExpanded ==
    /\ postsEvent.kind = "toggle"
    /\ postsView = "loaded"
    /\ Len(posts[1]) = 2
    /\ ExpandedPosts = {2}

\* C21: PostsList always renders one of the four views loading, failed, empty
\* and loaded, and the view matches the request for the current userId: failed
\* only if it failed, empty only if it succeeded with no items, loaded only if
\* it succeeded with at least one item.
PostsViewMatchesFetch ==
    /\ postsView \in {"loading", "error", "empty", "loaded"}
    /\ postsView = "error" => latestFetch.status = "failed"
    /\ postsView = "empty" => latestFetch = FetchOf("succeeded", JsonArray(<<>>))
    /\ postsView = "loaded" => /\ latestFetch.status = "succeeded"
                               /\ latestFetch.data # JsonNull
                               /\ Len(latestFetch.data[1]) >= 1

\* C22: the user-list request is issued once per App lifetime, at mount, to
\* the users endpoint; no select, deselect, delete or search event and no
\* outcome of the request issues another.
SingleUsersFetch == requests = <<UsersEndpoint>>

\* The request has settled and a user was selected, a term typed and a row
\* deleted.
DeleteAfterSelectAndSearch ==
    /\ fetchPc = "done"
    /\ lastEvent.kind = "delete"
    /\ selectedUser # None
    /\ searchTerm # <<>>

\* The reason the claim gives for a caught value: its message if it is an
\* error that has one, and the fixed message otherwise.
FailureReason(rej) ==
    IF rej.isError /\ rej.message # "" THEN rej.message ELSE "An error occurred"

\* C23: the failure reason of a fetch is the error's message when the request
\* fails with an error that has one, and a fixed message otherwise; the
\* reason is shown to the user in the error view.
FailureReasonShown ==
    thrown # None =>
        /\ error = Some(FailureReason(thrown[1]))
        /\ view \in {"error", "unmounted"}

\* C24: in the succeeded view the header shows "N of M users" with N the
\* number of rows of the filtered view and M the number of records, so
\* N <= M; a term that matches no record shows N = 0 and a table without rows.
HeaderCount ==
    view = "main" =>
        /\ subtitle # None
        /\ subtitle[1].shown = Len(rows)
        /\ subtitle[1].total = Len(users[1])
        /\ subtitle[1].shown <= subtitle[1].total
        /\ (/\ ~IsBlank(searchTerm)
            /\ \A user \in Range(users[1]) : ~Matches(user, searchTerm))
               => subtitle[1].shown = 0 /\ rows = <<>>

\* A term that matches neither of two records: the header shows 0 of 2.
NoSearchResults ==
    /\ view = "main"
    /\ searchTerm = <<"q">>
    /\ Len(users[1]) = 2
    /\ subtitle = Some([shown |-> 0, total |-> 2, matching |-> Some(<<"q">>)])
    /\ rows = <<>>

PayloadStored ==
    lastEvent'.kind = "json"
        => /\ lastEvent'.data # None
           /\ users' = lastEvent'.data[1]
           /\ FetchStatus' = "succeeded"
           /\ error' = None

\* C25: on a successful user-list fetch records is the decoded payload, same
\* elements in the same order, and the fetch status is succeeded with no error.
PayloadVerbatim == [][PayloadStored]_vars

\* A payload whose order is not the order of the ids has just been stored.
UnsortedPayloadStored ==
    /\ lastEvent = JsonEvent(JsonArray(<<Bob, Cy, AnnLee>>))
    /\ users = JsonArray(<<Bob, Cy, AnnLee>>)
    /\ view = "main"

\* The filter of the specification: all records for a blank term, else the
\* records in which the term occurs, in the order of records.
FilterEngine(records, term) ==
    LET Keep(user) == Matches(user, term)
    IN  IF IsBlank(term) THEN records ELSE SelectSeq(records, Keep)

\* C26: in every succeeded state, after any sequence of deletes and search
\* changes, the rows passed to the table are the filter of the current records
\* by the current search term.
RowsAreFilterOfRecords ==
    view = "main" => rows = FilterEngine(users[1], searchTerm)

\* A row was deleted while a term was filtering the records.
DeleteUnderFilter ==
    /\ view = "main"
    /\ lastEvent.kind = "delete"
    /\ searchTerm = <<"@","x">>
    /\ users = JsonArray(<<Bob, Cy>>)
    /\ rows = <<Cy>>

\* a is b with some elements left out: a strictly increasing map of the
\* positions of a into the positions of b carries each element to itself.
IsSubsequence(a, b) ==
    \E f \in [1..Len(a) -> 1..Len(b)] :
        /\ \A i \in 1..Len(a) : b[f[i]] = a[i]
        /\ \A i, j \in 1..Len(a) : i < j => f[i] < f[j]

\* C27: the filter is stable: the filtered view is a subsequence of records,
\* so any two records it keeps are in the same relative order as in records.
FilterStable ==
    view = "main" => IsSubsequence(rows, users[1])

\* The filter kept the first and the last of three records, which are not in
\* the order of their ids.
FilterKeepsOrder ==
    /\ view = "main"
    /\ users = JsonArray(<<Cy, Bob, AnnLee>>)
    /\ searchTerm = <<"@","x">>
    /\ rows = <<Cy, AnnLee>>

RecordsWriters ==
    /\ users' # users => lastEvent'.kind \in {"json", "delete"}
    /\ lastEvent'.kind = "delete"
           => /\ Len(users'[1]) >= Len(users[1]) - 1
              /\ IsSubsequence(users'[1], users[1])
    /\ lastEvent'.kind \in {"cellClick", "linkClick", "search", "clear",
                            "keydown", "backdrop", "panel", "closeButton"}
           => users' = users

\* C28: records changes only on a successful fetch and on a delete; select,
\* deselect and search-term change leave it unchanged, and a delete removes
\* at most one entry.
RecordsFrame == [][RecordsWriters]_vars

\* A user was selected under a search term and the three records are as
\* fetched.
SelectKeepsRecords ==
    /\ lastEvent = ClickEvent("cellClick", "name", 2, 1, 0)
    /\ searchTerm = <<"B","o">>
    /\ selectedUser = Some(Bob)
    /\ users = JsonArray(<<AnnLee, Bob, Cy>>)

SearchTermWriters ==
    /\ searchTerm' # searchTerm => lastEvent'.kind \in {"search", "clear"}
    /\ lastEvent'.kind \in {"search", "clear"}
           => /\ lastEvent'.data # None
              /\ searchTerm' = lastEvent'.data[1]

\* C29: searchTerm starts as the empty string and changes only through the
\* search control, which replaces it with the value it reports, untrimmed;
\* select, deselect, delete and the fetch outcome leave it unchanged.
SearchTermFrame == searchTerm = <<>> /\ [][SearchTermWriters]_vars

\* A typed value that ends with a space is the search term.
TrailingSpaceKept ==
    /\ lastEvent = SearchEvent("search", <<"a","l"," ">>)
    /\ searchTerm = <<"a","l"," ">>
    /\ view = "main"

\* C30: in every state of the succeeded view UserModal is rendered if and only
\* if selectedUser is not null, and it shows the selected user; outside that
\* view it is not rendered.
OverlayFollowsSelection ==
    /\ view = "main" => /\ modalMounted <=> selectedUser # None
                        /\ modalUser = selectedUser
    /\ view # "main" => ~modalMounted /\ modalUser = None

\* The overlay shows the one fetched user after a click on its row.
OverlayShowsSelected ==
    /\ view = "main"
    /\ lastEvent.kind = "cellClick"
    /\ users = JsonArray(<<Cy>>)
    /\ modalMounted
    /\ modalUser = Some(Cy)

LoadingUntilSettled ==
    /\ fetchPc # "done" => view \in {"loading", "unmounted"}
    /\ (view = "loading" /\ view' # "loading")
           => lastEvent'.kind \in SettleKinds \cup {"unmount"}

\* C31: if the user-list request settles, App leaves the loading view and
\* reaches the succeeded view or the error view (or was unmounted before);
\* until the request has settled the loading view is shown and no other event
\* ends it.
FetchLifecycleLive ==
    /\ [][LoadingUntilSettled]_vars
    /\ <>(view \in {"main", "error", "unmounted"})

\* C32: in every state where the user-list fetch is pending or failed no user
\* is selected, the overlay is not mounted and the scroll lock is not held.
NoSelectionUnlessSucceeded ==
    FetchStatus \in {"pending", "failed"} =>
        /\ selectedUser = None
        /\ ~modalMounted
        /\ modalUser = None
        /\ bodyOverflow # "hidden"

\* The fetch failed with an empty message, the main view is shown with no rows
\* and a term was typed.
SearchAfterFailure ==
    /\ FetchStatus = "failed"
    /\ view = "main"
    /\ lastEvent.kind = "search"
    /\ searchTerm # <<>>

RecordsOnlyShrink ==
    /\ lastEvent'.kind = "json" => users' = lastEvent'.data[1]
    /\ fetchPc = "done"
           => \/ users' = users
              \/ /\ users # JsonNull
                 /\ users' # JsonNull
                 /\ IsSubsequence(users'[1], users[1])
                 /\ Len(users'[1]) < Len(users[1])

\* C33: records only shrinks after the fetch: it is the payload when the fetch
\* succeeds, and every later step leaves it as it is or replaces it by a
\* shorter subsequence of itself; so in every succeeded state records is a
\* subsequence of the payload, its length never increases and a deleted user
\* never reappears.
RecordsShrinkAfterFetch == [][RecordsOnlyShrink]_vars

\* Of three fetched users the second was deleted and then the third; one is
\* left.
TwoOfThreeDeleted ==
    /\ lastEvent = ClickEvent("delete", "action", 3, 0, 1)
    /\ users = JsonArray(<<AnnLee>>)
    /\ searchTerm = <<>>
    /\ selectedUser = Some(Bob)

\* Filtering after deleting id gives what deleting id from the filtered view
\* gives, for the current records and term and every id.
FilterDeleteCommute ==
    view = "main" =>
        \A id \in CatalogueIds :
            filteredUsers(usersWithout(users, id), searchTerm)
                = usersWithout(filteredUsers(users, searchTerm), id)

DeleteFromRows ==
    lastEvent'.kind = "delete"
        => /\ rows' = usersWithout(JsonArray(rows), lastEvent'.id)[1]
           /\ Len(rows') = Len(rows) - 1
           /\ lastEvent'.id \notin UserIdsOf(users'[1])

DeletedStaysAbsent ==
    (view = "main" /\ lastEvent'.kind \in {"search", "clear"})
        => /\ users' = users
           /\ Range(rows') \subseteq Range(users[1])

\* C34: filter and delete commute, so a delete under an active search removes
\* exactly that row from the rows shown, and the deleted user stays absent
\* when the term is changed or cleared.
FilterCommutesWithDelete ==
    /\ []FilterDeleteCommute
    /\ [][DeleteFromRows /\ DeletedStaysAbsent]_vars

\* The last of three users was deleted under a term that matched it and the
\* first one.
MatchingRowDeleted ==
    /\ lastEvent = ClickEvent("delete", "action", 3, 0, 1)
    /\ searchTerm = <<"@","x">>
    /\ users = JsonArray(<<AnnLee, Bob>>)
    /\ rows = <<AnnLee>>

\* The substrings of a term, the empty one included.
Substrings(term) ==
    {SubSeq(term, i, j) : i \in 1..(Len(term) + 1), j \in 0..Len(term)}

\* The rows for the current term are among the rows for each of its substrings.
NarrowerThanSubstrings ==
    view = "main" =>
        \A t \in Substrings(searchTerm) :
            Range(rows) \subseteq Range(filteredUsers(users, t)[1])

TypingMoreAddsNoRow ==
    (view = "main" /\ lastEvent'.kind = "search" /\ searchTerm \in Substrings(searchTerm'))
        => Range(rows') \subseteq Range(rows)

\* C35: narrowing is monotone: if T is a substring of T', the filtered view
\* for T' is a subset of the filtered view for T, so typing more characters
\* never adds rows.
NarrowingMonotone ==
    /\ []NarrowerThanSubstrings
    /\ [][TypingMoreAddsNoRow]_vars

\* A term with a space inside keeps one of three users.
TermWithInnerSpace ==
    /\ view = "main"
    /\ lastEvent.kind = "search"
    /\ searchTerm = <<"n"," ","l">>
    /\ Len(users[1]) = 3
    /\ rows = <<AnnLee>>

\* C36: the term is trimmed only to decide whether it is blank; the match uses
\* the whole term, leading and trailing white space included: a record is
\* shown for a non-blank term only if a field contains the whole term, so the
\* rows for T are among the rows for trim(T) and need not be all of them.
MatchUsesUntrimmedTerm ==
    view = "main" =>
        /\ IsBlank(searchTerm) <=> trim(searchTerm) = <<>>
        /\ ~IsBlank(searchTerm) =>
               /\ \A user \in Range(users[1]) :
                      user \in Range(rows) <=> Matches(user, searchTerm)
               /\ Range(rows) \subseteq
                      Range(filteredUsers(users, trim(searchTerm))[1])

\* A term with a trailing space matches no record, and the trimmed term
\* matches one.
TrailingSpaceMatchesNothing ==
    /\ view = "main"
    /\ searchTerm = <<"a","l"," ">>
    /\ rows = <<>>
    /\ filteredUsers(users, trim(searchTerm)) = JsonArray(<<AnnLee>>)

OverflowAfterClose ==
    /\ (modalMounted /\ ~modalMounted') => bodyOverflow' = "auto"
    /\ (~modalMounted /\ modalMounted') => bodyOverflow' = "hidden"
    /\ bodyOverflow # "" => bodyOverflow' # ""

\* C37: releasing the scroll lock writes "auto" to document.body.style.overflow
\* and does not restore the value held before the overlay opened: after every
\* close overflow is "auto", and once the overlay has been opened overflow is
\* never again the empty value it may have had before.
OverflowNotRestored == [][OverflowAfterClose]_vars

\* The overlay was closed by its close button and overflow is "auto".
ClosedByButtonOverflowAuto ==
    /\ lastEvent.kind = "closeButton"
    /\ ~modalMounted
    /\ selectedUser = None
    /\ bodyOverflow = "auto"

\* C38: in PostsList the loading view is shown whenever the request for the
\* current userId has not settled; no event, the completion of an older
\* request included, makes it show posts, the empty view or an error before.
LoadingWhileCurrentFetchPending ==
    latestFetch.status = "pending" => postsView = "loading"

ExpandedPostWriters ==
    expandedPost' # expandedPost => postsEvent'.kind = "toggle"

\* C39: in PostsList the expanded post id changes only through
\* togglePostExpansion; a userId change or a new fetch does not reset it, so a
\* post of a newly loaded list with that id is shown expanded.
ExpandedPostFrame == [][ExpandedPostWriters]_vars

\* After a change of userId a list was loaded and one of its posts is shown
\* expanded without a click.
ExpandedAfterReload ==
    /\ postsEvent.kind = "json"
    /\ userIdChanges >= 1
    /\ postsView = "loaded"
    /\ ExpandedPosts # {}

====
